---- MODULE Spec2Model ----
(***************************************************************************)
(* Push-notification subsystem of the backend: the device registry         *)
(* (app/routes/devices.py, app/db/mongo.py) and the bump dispatcher        *)
(* (app/routes/bump.py, app/services/apns_service.py).                     *)
(*                                                                         *)
(* The MongoDB collections are modelled as sets of documents, the unique   *)
(* indexes of the devices collection as a set of index names; every await  *)
(* of a handler is a step of its process.                                  *)
(*                                                                         *)
(* bump.py imports its gateway client under the name send_apns_push; the   *)
(* gateway client apns_service.py defines is send_apns, and that is the    *)
(* client modelled here.                                                   *)
(***************************************************************************)
EXTENDS Integers, Sequences, FiniteSets, TLC

\* ------------------------------------------------------------------ bounds
\* Handler invocations (Register and bump together) started in one run: of
\* the interleaved specification, and of the one running a call at a time.
MaxCalls == 2
MaxSeqCalls == 3
\* Bump invocations of the specification of the gateway client, and the last
\* minute of its clock.
MaxApnsCalls == 2
MaxClock == 100

\* ------------------------------------------------------------------ values
Users == {"u1", "u2"}
\* A well-formed ObjectId string of no user; a string that is no ObjectId.
GhostUser == "u9"
BadId == "not-an-oid"

Envs == {"sandbox", "production"}

None == "none"

\* Tokens as clients submit them: two well-formed ones, one of them also
\* wrapped in angle brackets, and one that is too short.
RawTokens == {"A", "<A>", "B", "short"}

\* The handler slots of each route; a request takes the first free one.
RegProcs == {"r1", "r2"}
BumpProcs == {"b1", "b2"}
Earlier(p) ==
  CASE p = "r2" -> {"r1"}
    [] p = "b2" -> {"b1"}
    [] OTHER -> {}

\* HEX_RE: between 64 and 256 hex characters.
HexMin == 64
HexMax == 256

\* re.sub(r"[^0-9a-fA-F]", "", token): the hex characters alone.
Sanitize(raw) == IF raw = "<A>" THEN "A" ELSE raw

\* Number of characters of a sanitised token.
HexLen(t) == IF t \in {"A", "B", "C"} THEN 64 ELSE 5

\* HEX_RE.fullmatch(token)
HexMatch(t) == HexLen(t) >= HexMin /\ HexLen(t) <= HexMax

\* ObjectId(body.user_id) succeeds / ObjectId.is_valid
ObjectIdValid(u) == u # BadId

\* str.capitalize() of an environment name
Capitalize(e) ==
  CASE e = "production" -> "Production"
    [] e = "sandbox" -> "Sandbox"
    [] OTHER -> e

\* str.lower() of a stored environment value
Lower(e) ==
  CASE e = "Production" -> "production"
    [] e = "Sandbox" -> "sandbox"
    [] OTHER -> e

\* ------------------------------------------------------------------ state
VARIABLES
  started,          \* on_startup has run
  store,            \* devices collection: set of documents
  indexes,          \* unique indexes of the devices collection
  apns_token,       \* users collection: legacy users.apns_token per user
  bumps,            \* bumps collection
  bootstrap_done,   \* _bootstrap_done
  bootstrap_lock,   \* holder of _bootstrap_lock, or None
  reg,              \* Register handlers in flight
  bump,             \* bump handlers in flight
  calls,            \* handler invocations started so far
  ev,               \* what the last step returned to its caller, if it did
  APNS_ENV,         \* the process-wide APNS_ENV setting
  key_readable,     \* open(APNS_AUTH_KEY_PATH) and jwt.encode succeed
  JWT_CACHE,        \* _JWT_CACHE
  clock             \* time.time(), in minutes

vars == <<started, store, indexes, apns_token, bumps,
          bootstrap_done, bootstrap_lock, reg, bump, calls, ev,
          APNS_ENV, key_readable, JWT_CACHE, clock>>

\* The settings of the process, which no handler changes.
settings == <<APNS_ENV, key_readable, clock>>

\* ------------------------------------------------------------------ storage
\* Unique indexes seen on the devices collection:
\*   "up"  legacy {user_id, platform}
\*   "upe" uniq_user_platform_env {user_id, platform, environment}
\*   "upt" {user_id, platform, token} of init_db_indexes
IndexNames == {"up", "upe", "upt"}

Doc(id, uid, ustr, token, env) ==
  [id |-> id, uid |-> uid, ustr |-> ustr, platform |-> "ios",
   token |-> token, env |-> env]

\* The key of a document under an index; a missing field is indexed as null.
IndexKey(ix, d) ==
  CASE ix = "up" -> <<d.uid, d.ustr, d.platform>>
    [] ix = "upe" -> <<d.uid, d.ustr, d.platform, d.env>>
    [] ix = "upt" -> <<d.uid, d.ustr, d.platform, d.token>>

\* Two documents of S collide under unique index ix.
Collides(S, ix) ==
  \E d1 \in S, d2 \in S : d1.id # d2.id /\ IndexKey(ix, d1) = IndexKey(ix, d2)

\* A write leaving S would raise DuplicateKeyError under the indexes IX.
DuplicateKey(S, IX) == \E ix \in IX : Collides(S, ix)

\* Ids of documents a bump handler has looked up and still holds.
HeldIds == UNION { { bump[p].devices[k].id : k \in 1..Len(bump[p].devices) }
                   : p \in BumpProcs }

\* The _id of an inserted document: one no document and no handler holds.
FreshId ==
  LET used == { d.id : d \in store } \cup HeldIds
  IN  CHOOSE n \in 1..(Cardinality(used) + 1) :
        n \notin used /\ \A m \in 1..(n - 1) : m \in used

\* ------------------------------------------------------------------ initial state
\* What a deployment can hold when a process starts, as the documents of the
\* devices collection and its unique indexes:
\*   a fresh database;
\*   an earlier version's: a registration with the capitalised environment,
\*     under the legacy per-(user, platform) index;
\*   an earlier version's: a document written by the socket register_device
\*     handler (string user_id, apns_token field, no token, no environment);
\*   the current version's: one registration per environment.
Deployments ==
  { [store |-> {}, indexes |-> {}],
    [store |-> { Doc(1, "u1", FALSE, "A", "Sandbox") }, indexes |-> {"up"}],
    [store |-> { Doc(1, "u1", TRUE, None, None) }, indexes |-> {"up"}],
    [store |-> { Doc(1, "u1", FALSE, "A", "production"),
                 Doc(2, "u1", FALSE, "B", "sandbox") },
     indexes |-> {"upe", "upt"}] }

IdleReg == [pc |-> "idle", user |-> None, token |-> None, env |-> None,
            stage |-> 0, wrote |-> FALSE]

IdleBump == [pc |-> "idle", to |-> None, devices |-> <<>>, i |-> 0,
             sent |-> 0, failed |-> 0, to_prune_ids |-> {}, results |-> <<>>,
             bump_id |-> 0, requests |-> 0]

NoEv == [kind |-> None]

\* The collections and the handlers when the process starts, the legacy
\* token of user u2 being legacy.
InitWith(legacy) ==
  /\ started = FALSE
  /\ \E dep \in Deployments : store = dep.store /\ indexes = dep.indexes
  /\ apns_token = [u \in Users |-> IF u = "u2" THEN legacy ELSE None]
  /\ bumps = {}
  /\ bootstrap_done = FALSE
  /\ bootstrap_lock = None
  /\ reg = [p \in RegProcs |-> IdleReg]
  /\ bump = [p \in BumpProcs |-> IdleBump]
  /\ calls = 0
  /\ ev = NoEv
  /\ JWT_CACHE = [token |-> None, generated_at |-> 0]
  /\ clock = 0

\* A process with the default APNS_ENV and a readable signing key.
Init ==
  /\ InitWith("C")
  /\ APNS_ENV = "sandbox"
  /\ key_readable = TRUE

\* ------------------------------------------------------------------ startup
\* on_startup: init_db_indexes creates the unique {user_id, platform, token}
\* index; a failure is logged and the application serves anyway.
Startup ==
  /\ ~started
  /\ started' = TRUE
  /\ \E ok \in BOOLEAN :
       indexes' = IF ok /\ ~Collides(store, "upt")
                  THEN indexes \cup {"upt"} ELSE indexes
  /\ ev' = NoEv
  /\ UNCHANGED <<settings, JWT_CACHE, store, apns_token, bumps, bootstrap_done,
                 bootstrap_lock, reg, bump, calls>>

\* ------------------------------------------------------------------ Register
\* What the Register handler hands back: res is "ok" (HTTP 200), "400", or
\* "unhandled" (an exception that leaves the handler).
RegReturn(p, r, res, wrote) ==
  [kind |-> "register", user |-> r.user, token |-> r.token,
   env |-> r.env, stage |-> r.stage, res |-> res, wrote |-> wrote]

\* Steps 1 and 2 of the handler, on the request body (user_id, token) and
\* the environment (given, or inferred from the request's host):
\* ObjectId(body.user_id), then the sanitised token against HEX_RE; either
\* failure raises HTTP 400. Otherwise the doc to store is prepared and the
\* first update_one issued. No await separates these steps from the return of
\* the bootstrap.
RegValidate(p, wrote) ==
  \E u \in Users \cup {BadId}, raw \in RawTokens, e \in Envs :
    LET r == [IdleReg EXCEPT !.user = u, !.token = raw, !.env = e]
    IN  IF ObjectIdValid(u) /\ HexMatch(Sanitize(raw))
        THEN /\ reg' = [reg EXCEPT ![p] =
                          [r EXCEPT !.pc = "upsert", !.stage = 1,
                                    !.token = Sanitize(raw)]]
             /\ ev' = NoEv
        ELSE /\ reg' = [reg EXCEPT ![p] = IdleReg]
             /\ ev' = RegReturn(p, r, "400", wrote)

\* A bootstrap with the latch and no lock: a caller that finds the latch unset
\* starts the self-heal whether or not another caller is running it.
RegStart_NoLock(p, budget) ==
  /\ started
  /\ reg[p].pc = "idle"
  /\ \A q \in Earlier(p) : reg[q].pc # "idle"
  /\ calls < budget
  /\ calls' = calls + 1
  /\ \/ /\ bootstrap_done
        /\ RegValidate(p, FALSE)
        /\ UNCHANGED bootstrap_lock
     \/ /\ ~bootstrap_done
        /\ bootstrap_lock' = p
        /\ reg' = [reg EXCEPT ![p].pc = "boot_norm"]
        /\ ev' = NoEv
  /\ UNCHANGED <<settings, JWT_CACHE, started, store, indexes, apns_token, bumps,
                 bootstrap_done, bump>>

\* POST /devices/apns arrives and the handler runs to its first await.
\* _bootstrap_devices_collection_once returns at once when the latch is set;
\* otherwise the caller takes the lock and starts the self-heal, or waits for
\* the lock when another caller holds it.
RegStart(p, budget) ==
  /\ started
  /\ reg[p].pc = "idle"
  /\ \A q \in Earlier(p) : reg[q].pc # "idle"
  /\ calls < budget
  /\ calls' = calls + 1
  /\ \/ /\ bootstrap_done
        /\ RegValidate(p, FALSE)
        /\ UNCHANGED bootstrap_lock
     \/ /\ ~bootstrap_done
        /\ bootstrap_lock = None
        /\ bootstrap_lock' = p
        /\ reg' = [reg EXCEPT ![p].pc = "boot_norm"]
        /\ ev' = NoEv
     \/ /\ ~bootstrap_done
        /\ bootstrap_lock # None
        /\ reg' = [reg EXCEPT ![p].pc = "wait_lock"]
        /\ ev' = NoEv
        /\ UNCHANGED bootstrap_lock
  /\ UNCHANGED <<settings, JWT_CACHE, started, store, indexes, apns_token, bumps,
                 bootstrap_done, bump>>

\* A caller that waited gets the lock: the latch checked again under the lock
\* is set, so the bootstrap returns and the handler goes on.
BootAwaited(p) ==
  /\ reg[p].pc = "wait_lock"
  /\ bootstrap_lock = None
  /\ IF bootstrap_done
     THEN /\ RegValidate(p, FALSE)
          /\ UNCHANGED bootstrap_lock
     ELSE /\ bootstrap_lock' = p
          /\ reg' = [reg EXCEPT ![p].pc = "boot_norm"]
          /\ ev' = NoEv
  /\ UNCHANGED <<settings, JWT_CACHE, started, store, indexes, apns_token, bumps,
                 bootstrap_done, bump, calls>>

\* update_many({"environment": from}, {"$set": {"environment": to}})
NormalizeEnv(S, from, to) ==
  { IF d.env = from THEN [d EXCEPT !.env = to] ELSE d : d \in S }

\* Step 1 of the bootstrap: both update_many calls; an exception of either
\* skips the rest of the step.
BootNormalize(p) ==
  /\ reg[p].pc = "boot_norm"
  /\ \E n \in 0..2 :
       LET s1 == IF n >= 1 THEN NormalizeEnv(store, "Production", "production")
                 ELSE store
           s2 == IF n >= 2 THEN NormalizeEnv(s1, "Sandbox", "sandbox") ELSE s1
       IN  /\ ~DuplicateKey(s2, indexes)
           /\ store' = s2
           /\ reg' = [reg EXCEPT ![p].pc = "boot_drop",
                                 ![p].wrote = reg[p].wrote \/ (s2 # store)]
  /\ ev' = NoEv
  /\ UNCHANGED <<settings, JWT_CACHE, started, indexes, apns_token, bumps, bootstrap_done,
                 bootstrap_lock, bump, calls>>

\* Step 2: drop every unique index whose key is exactly (user_id, platform).
BootDropLegacy(p) ==
  /\ reg[p].pc = "boot_drop"
  /\ \E ok \in BOOLEAN :
       LET IX == IF ok THEN indexes \ {"up"} ELSE indexes
       IN  /\ indexes' = IX
           /\ reg' = [reg EXCEPT ![p].pc = "boot_index",
                                 ![p].wrote = reg[p].wrote \/ (IX # indexes)]
  /\ ev' = NoEv
  /\ UNCHANGED <<settings, JWT_CACHE, started, store, apns_token, bumps, bootstrap_done,
                 bootstrap_lock, bump, calls>>

\* Step 3: create uniq_user_platform_env; a failure is logged. Then the latch
\* is set, the lock released, and the handler goes on.
BootEnsureIndex(p) ==
  /\ reg[p].pc = "boot_index"
  /\ \E ok \in BOOLEAN :
       LET IX == IF ok /\ ~Collides(store, "upe")
                 THEN indexes \cup {"upe"} ELSE indexes
       IN  /\ indexes' = IX
           /\ RegValidate(p, reg[p].wrote \/ (IX # indexes))
  /\ bootstrap_done' = TRUE
  /\ bootstrap_lock' = None
  /\ UNCHANGED <<settings, JWT_CACHE, started, store, apns_token, bumps, bump, calls>>

\* The filter of the upsert of each stage: the (user, platform, environment
\* variants) key, the legacy (user, platform) key, the token.
UpsertFilter(stage, r, d) ==
  CASE stage = 1 -> /\ d.uid = r.user /\ ~d.ustr /\ d.platform = "ios"
                    /\ d.env \in {r.env, Capitalize(r.env)}
    [] stage = 2 -> d.uid = r.user /\ ~d.ustr /\ d.platform = "ios"
    [] OTHER -> d.token = r.token

\* $set of the prepared doc on a matched document.
SetDoc(d, r) ==
  [d EXCEPT !.uid = r.user, !.ustr = FALSE, !.platform = "ios",
            !.token = r.token, !.env = r.env]

\* The outcome of one update_one of the handler on the collection: S is the
\* collection the write would leave. A DuplicateKeyError moves to the next
\* fallback filter, and past the last one the exception leaves the handler.
RegWrite(p, S) ==
  LET r == reg[p]
  IN  IF DuplicateKey(S, indexes)
      THEN /\ UNCHANGED store
           /\ IF r.stage < 3
              THEN /\ reg' = [reg EXCEPT ![p].pc = "upsert",
                                         ![p].stage = r.stage + 1]
                   /\ ev' = NoEv
              ELSE /\ reg' = [reg EXCEPT ![p] = IdleReg]
                   /\ ev' = RegReturn(p, r, "unhandled", FALSE)
      ELSE /\ store' = S
           /\ reg' = [reg EXCEPT ![p] = IdleReg]
           /\ ev' = RegReturn(p, r, "ok", TRUE)

\* update_one(filter, {$set: doc}, upsert=True), document found: one matching
\* document is rewritten under the unique indexes. No document found: the
\* insert follows as a separate storage step.
RegUpsert(p) ==
  /\ reg[p].pc = "upsert"
  /\ LET r == reg[p]
         M == { d \in store : UpsertFilter(r.stage, r, d) }
     IN  IF M = {}
         THEN /\ reg' = [reg EXCEPT ![p].pc = "insert"]
              /\ ev' = NoEv
              /\ UNCHANGED store
         ELSE \E d \in M : RegWrite(p, (store \ {d}) \cup {SetDoc(d, r)})
  /\ UNCHANGED <<settings, JWT_CACHE, started, indexes, apns_token, bumps, bootstrap_done,
                 bootstrap_lock, bump, calls>>

\* The insert half of an upsert that matched nothing.
RegInsert(p) ==
  /\ reg[p].pc = "insert"
  /\ RegWrite(p, store \cup
                 {Doc(FreshId, reg[p].user, FALSE, reg[p].token, reg[p].env)})
  /\ UNCHANGED <<settings, JWT_CACHE, started, indexes, apns_token, bumps, bootstrap_done,
                 bootstrap_lock, bump, calls>>

\* ------------------------------------------------------------------ push gateway
\* What one request to the gateway can come back with: the HTTP status and
\* the reason of the response body. Status 0 stands for a timeout or a
\* transport exception, which the client returns as a value.
Responses ==
  { [status |-> 200, reason |-> None],
    [status |-> 0, reason |-> None],
    [status |-> 400, reason |-> "BadDeviceToken"],
    [status |-> 410, reason |-> "Unregistered"],
    [status |-> 400, reason |-> "BadTopic"],
    [status |-> 503, reason |-> "ServiceUnavailable"] }

\* Responses, and two the gateway's protocol does not list: a 2xx status
\* other than 200, and a dead-token reason under another 4xx status.
AnyResponses ==
  Responses \cup { [status |-> 204, reason |-> None],
                   [status |-> 403, reason |-> "BadDeviceToken"] }

\* One response of each kind the handler tells apart: delivered, timeout,
\* token dead, rejected for another reason.
KindResponses ==
  { [status |-> 200, reason |-> None],
    [status |-> 0, reason |-> None],
    [status |-> 410, reason |-> "Unregistered"],
    [status |-> 400, reason |-> "BadTopic"] }

\* Cache the auth JWT for 50 minutes.
JwtTtl == 50

\* APNS_HOST, fixed when the module is loaded.
APNS_HOST ==
  IF APNS_ENV = "production" THEN "api.push.apple.com"
  ELSE "api.sandbox.push.apple.com"

\* _sanitize_token: the hex characters of the token if they match HEX_RE.
SanitizeToken(token) ==
  IF token = None THEN None
  ELSE IF HexMatch(Sanitize(token)) THEN Sanitize(token) ELSE None

\* The cache test with <= in place of <.
GetApnsJwt_Inclusive ==
  IF JWT_CACHE.token # None /\ clock - JWT_CACHE.generated_at <= JwtTtl
  THEN [raised |-> FALSE, cache |-> JWT_CACHE]
  ELSE IF key_readable
  THEN [raised |-> FALSE, cache |-> [token |-> "jwt", generated_at |-> clock]]
  ELSE [raised |-> TRUE, cache |-> JWT_CACHE]

\* _get_apns_jwt: the cached token while it is younger than 50 minutes,
\* else a token minted now from the key read from disk; raised when the key
\* cannot be read. cache is _JWT_CACHE after the call.
GetApnsJwt ==
  IF JWT_CACHE.token # None /\ clock - JWT_CACHE.generated_at < JwtTtl
  THEN [raised |-> FALSE, cache |-> JWT_CACHE]
  ELSE IF key_readable
  THEN [raised |-> FALSE, cache |-> [token |-> "jwt", generated_at |-> clock]]
  ELSE [raised |-> TRUE, cache |-> JWT_CACHE]

\* ok for every 2xx status.
ApnsOk_Any2xx(resp) == resp.status \in 200..299

\* ok = resp.status_code == 200
ApnsOk(resp) == resp.status = 200

\* The client posting a second time when the first request got no answer.
SendApns_RetryOnce(token_hex, resp) ==
  LET failed(posts, error, cache) ==
        [ok |-> FALSE, status |-> 0, reason |-> None, posts |-> posts,
         host |-> IF posts = 0 THEN None ELSE APNS_HOST,
         error |-> error, cache |-> cache]
      j == GetApnsJwt
  IN  IF SanitizeToken(token_hex) = None
      THEN failed(0, "Invalid token format", JWT_CACHE)
      ELSE IF j.raised THEN failed(0, "key", JWT_CACHE)
      ELSE IF resp.status = 0 THEN failed(2, "transport", j.cache)
      ELSE [ok |-> ApnsOk(resp), status |-> resp.status,
            reason |-> resp.reason, posts |-> 1, host |-> APNS_HOST,
            error |-> None, cache |-> j.cache]

\* send_apns(token_hex, ...) when the gateway answers resp: the result dict
\* (posts: requests sent to host; error: the body's "error"), and cache,
\* _JWT_CACHE after the call. Every exception is returned as status 0.
SendApns(token_hex, resp) ==
  LET failed(posts, error, cache) ==
        [ok |-> FALSE, status |-> 0, reason |-> None, posts |-> posts,
         host |-> IF posts = 0 THEN None ELSE APNS_HOST,
         error |-> error, cache |-> cache]
      j == GetApnsJwt
  IN  IF SanitizeToken(token_hex) = None
      THEN failed(0, "Invalid token format", JWT_CACHE)
      ELSE IF j.raised THEN failed(0, "key", JWT_CACHE)
      ELSE IF resp.status = 0 THEN failed(1, "transport", j.cache)
      ELSE [ok |-> ApnsOk(resp), status |-> resp.status,
            reason |-> resp.reason, posts |-> 1, host |-> APNS_HOST,
            error |-> None, cache |-> j.cache]

\* The reasons by which the gateway says a token is dead.
PermanentReasons == {"BadDeviceToken", "Unregistered"}

\* The classification without the test of the reason.
IsPermanent_AnyReason(resp) == resp.status \in {400, 410}

\* The classification with every 4xx status.
IsPermanent_Any4xx(resp) ==
  resp.status \in 400..499 /\ resp.reason \in PermanentReasons

\* "Permanent token errors" of the bump handler.
IsPermanent(resp) ==
  resp.status \in {400, 410} /\ resp.reason \in PermanentReasons

\* ------------------------------------------------------------------ bump
RECURSIVE ById(_)
\* The documents of S as a list, in _id order.
ById(S) ==
  IF S = {} THEN <<>>
  ELSE LET d == CHOOSE x \in S : \A y \in S : x.id <= y.id
       IN  <<d>> \o ById(S \ {d})

\* devices_collection.find({"user_id": {"$in": [to_oid, to_user_id]},
\* "platform": "ios"}): ObjectId and string user ids alike.
FindDevices(to) == { d \in store : d.uid = to /\ d.platform = "ios" }

\* What the bump handler hands back: res is "ok" (a tally), "400" or "404".
BumpReturn(p, b, res, pruned, deleted) ==
  [kind |-> "bump", to |-> b.to, res |-> res,
   devices |-> b.devices, sent |-> b.sent, failed |-> b.failed,
   pruned |-> pruned, results |-> b.results, bump_id |-> b.bump_id,
   requests |-> b.requests, deleted |-> deleted]

\* The entry of the handler answering an unknown user like a malformed id.
BumpStart_NotFoundAs400(p, budget) ==
  /\ started
  /\ bump[p].pc = "idle"
  /\ \A q \in Earlier(p) : bump[q].pc # "idle"
  /\ calls < budget
  /\ calls' = calls + 1
  /\ \E to \in Users \cup {GhostUser, BadId} :
       LET b == [IdleBump EXCEPT !.to = to]
       IN  IF ~ObjectIdValid(to) \/ to \notin Users
           THEN /\ bump' = [bump EXCEPT ![p] = IdleBump]
                /\ ev' = BumpReturn(p, b, "400", 0, {})
           ELSE /\ bump' = [bump EXCEPT ![p] = [b EXCEPT !.pc = "insert"]]
                /\ ev' = NoEv
  /\ UNCHANGED <<settings, JWT_CACHE, started, store, indexes, apns_token, bumps, bootstrap_done,
                 bootstrap_lock, reg>>

\* POST /bump arrives: ObjectId.is_valid(to_user_id), else HTTP 400; then
\* users_collection.find_one of the target, HTTP 404 when there is none.
BumpStart(p, budget) ==
  /\ started
  /\ bump[p].pc = "idle"
  /\ \A q \in Earlier(p) : bump[q].pc # "idle"
  /\ calls < budget
  /\ calls' = calls + 1
  /\ \E to \in Users \cup {GhostUser, BadId} :
       LET b == [IdleBump EXCEPT !.to = to]
       IN  IF ~ObjectIdValid(to)
           THEN /\ bump' = [bump EXCEPT ![p] = IdleBump]
                /\ ev' = BumpReturn(p, b, "400", 0, {})
           ELSE IF to \notin Users
           THEN /\ bump' = [bump EXCEPT ![p] = IdleBump]
                /\ ev' = BumpReturn(p, b, "404", 0, {})
           ELSE /\ bump' = [bump EXCEPT ![p] = [b EXCEPT !.pc = "insert"]]
                /\ ev' = NoEv
  /\ UNCHANGED <<settings, JWT_CACHE, started, store, indexes, apns_token, bumps, bootstrap_done,
                 bootstrap_lock, reg>>

\* The handler going on to the lookup with an id but no stored document.
BumpInsert_NotStored(p) ==
  /\ bump[p].pc = "insert"
  /\ bump' = [bump EXCEPT ![p].pc = "lookup",
                          ![p].bump_id = Cardinality(bumps) + 1]
  /\ ev' = NoEv
  /\ UNCHANGED <<settings, JWT_CACHE, started, store, indexes, apns_token, bumps, bootstrap_done,
                 bootstrap_lock, reg, calls>>

\* bumps_collection.insert_one(bump_doc)
BumpInsert(p) ==
  /\ bump[p].pc = "insert"
  /\ LET id == Cardinality(bumps) + 1
     IN  /\ bumps' = bumps \cup {[id |-> id, to_user_id |-> bump[p].to,
                                  via |-> "rest"]}
         /\ bump' = [bump EXCEPT ![p].pc = "lookup", ![p].bump_id = id]
  /\ ev' = NoEv
  /\ UNCHANGED <<settings, JWT_CACHE, started, store, indexes, apns_token, bootstrap_done,
                 bootstrap_lock, reg, calls>>

\* The token and environment projection of the device documents found.
BumpLookup(p) ==
  /\ bump[p].pc = "lookup"
  /\ LET found == ById(FindDevices(bump[p].to))
         devs == [k \in 1..Len(found) |->
                    [id |-> found[k].id, token |-> found[k].token,
                     environment |-> found[k].env]]
     IN  bump' = [bump EXCEPT ![p].devices = devs,
                              ![p].i = 1,
                              ![p].pc = IF devs = <<>> THEN "fallback"
                                        ELSE "send"]
  /\ ev' = NoEv
  /\ UNCHANGED <<settings, JWT_CACHE, started, store, indexes, apns_token, bumps, bootstrap_done,
                 bootstrap_lock, reg, calls>>

\* The handler without the fallback to users.apns_token.
BumpFallback_NoLegacy(p) ==
  /\ bump[p].pc = "fallback"
  /\ bump' = [bump EXCEPT ![p] = IdleBump]
  /\ ev' = BumpReturn(p, bump[p], "ok", 0, {})
  /\ UNCHANGED <<settings, JWT_CACHE, started, store, indexes, apns_token, bumps, bootstrap_done,
                 bootstrap_lock, reg, calls>>

\* No device document: users.apns_token, when set, is pushed to as one
\* production device without an _id (0 here); otherwise the "No APNs token
\* registered" result is returned.
BumpFallback(p) ==
  /\ bump[p].pc = "fallback"
  /\ LET token == apns_token[bump[p].to]
     IN  IF token # None
         THEN /\ bump' = [bump EXCEPT ![p].pc = "send",
                            ![p].devices = << [id |-> 0, token |-> token,
                                               environment |-> "production"] >>]
              /\ ev' = NoEv
         ELSE /\ bump' = [bump EXCEPT ![p] = IdleBump]
              /\ ev' = BumpReturn(p, bump[p], "ok", 0, {})
  /\ UNCHANGED <<settings, JWT_CACHE, started, store, indexes, apns_token, bumps, bootstrap_done,
                 bootstrap_lock, reg, calls>>

\* env of the push for a stored environment value.
PushEnv(e) ==
  LET env_raw == Lower(IF e = None THEN "production" ELSE e)
  IN  IF env_raw = "production" THEN "production" ELSE "sandbox"

\* The bookkeeping counting a failure only when the token is dead.
Tally_FailedOnlyDead(b, d, res, requested) ==
  LET ok == requested /\ res.ok
      dead == requested /\ ~ok /\ IsPermanent(res)
  IN  [b EXCEPT
         !.i = b.i + 1,
         !.sent = IF ok THEN b.sent + 1 ELSE b.sent,
         !.failed = IF dead THEN b.failed + 1 ELSE b.failed,
         !.requests = IF requested THEN b.requests + 1 ELSE b.requests,
         !.to_prune_ids =
            IF dead /\ d.id # 0
            THEN b.to_prune_ids \cup {d.id} ELSE b.to_prune_ids,
         !.results = Append(b.results,
            [id |-> d.id, requested |-> requested,
             env |-> IF requested THEN PushEnv(d.environment) ELSE None,
             ok |-> ok, status |-> res.status, reason |-> res.reason,
             posts |-> res.posts, host |-> res.host, error |-> res.error])]

\* The handler's bookkeeping for device d given the result res of its push
\* (requested: the client was called at all).
Tally(b, d, res, requested) ==
  LET ok == requested /\ res.ok
  IN  [b EXCEPT
         !.i = b.i + 1,
         !.sent = IF ok THEN b.sent + 1 ELSE b.sent,
         !.failed = IF ok THEN b.failed ELSE b.failed + 1,
         !.requests = IF requested THEN b.requests + 1 ELSE b.requests,
         !.to_prune_ids =
            IF requested /\ ~ok /\ IsPermanent(res) /\ d.id # 0
            THEN b.to_prune_ids \cup {d.id} ELSE b.to_prune_ids,
         !.results = Append(b.results,
            [id |-> d.id, requested |-> requested,
             env |-> IF requested THEN PushEnv(d.environment) ELSE None,
             ok |-> ok, status |-> res.status, reason |-> res.reason,
             posts |-> res.posts, host |-> res.host, error |-> res.error])]

\* The loop with a client that has no timeout: a request the gateway never
\* answers is awaited for ever.
BumpSend_NoTimeout(p, R) ==
  /\ bump[p].pc = "send"
  /\ LET b == bump[p]
         d == b.devices[b.i]
     IN  \E resp \in R :
           LET res == IF d.token = None
                      THEN [ok |-> FALSE, status |-> 0,
                            reason |-> "MissingToken", posts |-> 0,
                            host |-> None, error |-> None,
                            cache |-> JWT_CACHE]
                      ELSE SendApns(d.token, resp)
               nb == Tally(b, d, res, d.token # None)
           IN  /\ JWT_CACHE' = res.cache
               /\ IF res.error = "transport"
                  THEN /\ bump' = [bump EXCEPT ![p].pc = "awaiting"]
                       /\ ev' = NoEv
                  ELSE IF nb.i <= Len(nb.devices)
                  THEN /\ bump' = [bump EXCEPT ![p] = nb]
                       /\ ev' = NoEv
                  ELSE IF nb.to_prune_ids # {}
                  THEN /\ bump' = [bump EXCEPT ![p] = [nb EXCEPT !.pc = "prune"]]
                       /\ ev' = NoEv
                  ELSE /\ bump' = [bump EXCEPT ![p] = IdleBump]
                       /\ ev' = BumpReturn(p, nb, "ok", 0, {})
  /\ UNCHANGED <<settings, started, store, indexes, apns_token, bumps,
                 bootstrap_done, bootstrap_lock, reg, calls>>

\* The loop returning the tally at the first push that is delivered.
BumpSend_ReturnOnDelivery(p, R) ==
  /\ bump[p].pc = "send"
  /\ LET b == bump[p]
         d == b.devices[b.i]
     IN  \E resp \in R :
           LET res == IF d.token = None
                      THEN [ok |-> FALSE, status |-> 0,
                            reason |-> "MissingToken", posts |-> 0,
                            host |-> None, error |-> None,
                            cache |-> JWT_CACHE]
                      ELSE SendApns(d.token, resp)
               nb == Tally(b, d, res, d.token # None)
           IN  /\ JWT_CACHE' = res.cache
               /\ IF nb.i <= Len(nb.devices) /\ ~res.ok
                  THEN /\ bump' = [bump EXCEPT ![p] = nb]
                       /\ ev' = NoEv
                  ELSE IF nb.to_prune_ids # {}
                  THEN /\ bump' = [bump EXCEPT ![p] = [nb EXCEPT !.pc = "prune"]]
                       /\ ev' = NoEv
                  ELSE /\ bump' = [bump EXCEPT ![p] = IdleBump]
                       /\ ev' = BumpReturn(p, nb, "ok", 0, {})
  /\ UNCHANGED <<settings, started, store, indexes, apns_token, bumps,
                 bootstrap_done, bootstrap_lock, reg, calls>>

\* The loop leaving at the first push that is not ok.
BumpSend_StopOnFailure(p, R) ==
  /\ bump[p].pc = "send"
  /\ LET b == bump[p]
         d == b.devices[b.i]
     IN  \E resp \in R :
           LET res == IF d.token = None
                      THEN [ok |-> FALSE, status |-> 0,
                            reason |-> "MissingToken", posts |-> 0,
                            host |-> None, error |-> None,
                            cache |-> JWT_CACHE]
                      ELSE SendApns(d.token, resp)
               nb == Tally(b, d, res, d.token # None)
           IN  /\ JWT_CACHE' = res.cache
               /\ IF nb.i <= Len(nb.devices) /\ res.ok
                  THEN /\ bump' = [bump EXCEPT ![p] = nb]
                       /\ ev' = NoEv
                  ELSE IF nb.to_prune_ids # {}
                  THEN /\ bump' = [bump EXCEPT ![p] = [nb EXCEPT !.pc = "prune"]]
                       /\ ev' = NoEv
                  ELSE /\ bump' = [bump EXCEPT ![p] = IdleBump]
                       /\ ev' = BumpReturn(p, nb, "ok", 0, {})
  /\ UNCHANGED <<settings, started, store, indexes, apns_token, bumps,
                 bootstrap_done, bootstrap_lock, reg, calls>>

\* One turn of the loop over the devices: a device without token is counted
\* failed; otherwise one push is sent and its result classified. After the
\* last device the handler returns, unless there is something to prune.
BumpSend(p, R) ==
  /\ bump[p].pc = "send"
  /\ LET b == bump[p]
         d == b.devices[b.i]
     IN  \E resp \in R :
           LET res == IF d.token = None
                      THEN [ok |-> FALSE, status |-> 0,
                            reason |-> "MissingToken", posts |-> 0,
                            host |-> None, error |-> None,
                            cache |-> JWT_CACHE]
                      ELSE SendApns(d.token, resp)
               nb == Tally(b, d, res, d.token # None)
           IN  /\ JWT_CACHE' = res.cache
               /\ IF nb.i <= Len(nb.devices)
                  THEN /\ bump' = [bump EXCEPT ![p] = nb]
                       /\ ev' = NoEv
                  ELSE IF nb.to_prune_ids # {}
                  THEN /\ bump' = [bump EXCEPT ![p] = [nb EXCEPT !.pc = "prune"]]
                       /\ ev' = NoEv
                  ELSE /\ bump' = [bump EXCEPT ![p] = IdleBump]
                       /\ ev' = BumpReturn(p, nb, "ok", 0, {})
  /\ UNCHANGED <<settings, started, store, indexes, apns_token, bumps,
                 bootstrap_done, bootstrap_lock, reg, calls>>

\* The prune as a delete_one: only the first matching document goes.
BumpPrune_DeleteOne(p) ==
  /\ bump[p].pc = "prune"
  /\ LET hit == { d \in store : d.id \in bump[p].to_prune_ids }
         gone == { d \in hit : \A x \in hit : d.id <= x.id }
     IN  /\ store' = store \ gone
         /\ bump' = [bump EXCEPT ![p] = IdleBump]
         /\ ev' = BumpReturn(p, bump[p], "ok", Cardinality(gone),
                             { d.id : d \in gone })
  /\ UNCHANGED <<settings, JWT_CACHE, started, indexes, apns_token, bumps, bootstrap_done,
                 bootstrap_lock, reg, calls>>

\* The prune reporting the number of _ids it asked to delete.
BumpPrune_CountRequested(p) ==
  /\ bump[p].pc = "prune"
  /\ LET gone == { d \in store : d.id \in bump[p].to_prune_ids }
     IN  /\ store' = store \ gone
         /\ bump' = [bump EXCEPT ![p] = IdleBump]
         /\ ev' = BumpReturn(p, bump[p], "ok",
                             Cardinality(bump[p].to_prune_ids),
                             { d.id : d \in gone })
  /\ UNCHANGED <<settings, JWT_CACHE, started, indexes, apns_token, bumps, bootstrap_done,
                 bootstrap_lock, reg, calls>>

\* The prune as a delete of every device document of the target user.
BumpPrune_ByUser(p) ==
  /\ bump[p].pc = "prune"
  /\ LET gone == FindDevices(bump[p].to)
     IN  /\ store' = store \ gone
         /\ bump' = [bump EXCEPT ![p] = IdleBump]
         /\ ev' = BumpReturn(p, bump[p], "ok", Cardinality(gone),
                             { d.id : d \in gone })
  /\ UNCHANGED <<settings, JWT_CACHE, started, indexes, apns_token, bumps, bootstrap_done,
                 bootstrap_lock, reg, calls>>

\* delete_many({"_id": {"$in": to_prune_ids}}); pruned is its deleted_count.
BumpPrune(p) ==
  /\ bump[p].pc = "prune"
  /\ LET gone == { d \in store : d.id \in bump[p].to_prune_ids }
     IN  /\ store' = store \ gone
         /\ bump' = [bump EXCEPT ![p] = IdleBump]
         /\ ev' = BumpReturn(p, bump[p], "ok", Cardinality(gone),
                             { d.id : d \in gone })
  /\ UNCHANGED <<settings, JWT_CACHE, started, indexes, apns_token, bumps, bootstrap_done,
                 bootstrap_lock, reg, calls>>

\* ------------------------------------------------------------------ specifications
Next ==
  \/ Startup
  \/ \E p \in RegProcs :
       \/ RegStart(p, MaxCalls)
       \/ BootAwaited(p)
       \/ BootNormalize(p)
       \/ BootDropLegacy(p)
       \/ BootEnsureIndex(p)
       \/ RegUpsert(p)
       \/ RegInsert(p)
  \/ \E p \in BumpProcs :
       \/ BumpStart(p, MaxCalls)
       \/ BumpInsert(p)
       \/ BumpLookup(p)
       \/ BumpFallback(p)
       \/ BumpSend(p, KindResponses)
       \/ BumpPrune(p)

Spec == Init /\ [][Next]_vars

\* No handler is in flight.
Quiet ==
  /\ \A p \in RegProcs : reg[p].pc = "idle"
  /\ \A p \in BumpProcs : bump[p].pc = "idle"

\* One call at a time: a handler is entered only when none is in flight.
NextSeq ==
  \/ Startup
  \/ Quiet /\ RegStart("r1", MaxSeqCalls)
  \/ BootNormalize("r1")
  \/ BootDropLegacy("r1")
  \/ BootEnsureIndex("r1")
  \/ RegUpsert("r1")
  \/ RegInsert("r1")
  \/ Quiet /\ BumpStart("b1", MaxSeqCalls)
  \/ BumpInsert("b1")
  \/ BumpLookup("b1")
  \/ BumpFallback("b1")
  \/ BumpSend("b1", Responses)
  \/ BumpPrune("b1")

SpecSeq == Init /\ [][NextSeq]_vars

\* ------------------------------------------------------------------ the gateway client
\* Minutes that pass between two steps.
TickSteps == {10, 40}

\* Time passes.
Tick ==
  /\ \E d \in TickSteps :
       /\ clock + d <= MaxClock
       /\ clock' = clock + d
  /\ ev' = NoEv
  /\ UNCHANGED <<APNS_ENV, key_readable, JWT_CACHE, started, store, indexes,
                 apns_token, bumps, bootstrap_done, bootstrap_lock, reg,
                 bump, calls>>

\* A process with either APNS_ENV, with or without a readable signing key,
\* and a user record whose legacy apns_token is not a device token.
InitApns ==
  /\ InitWith("short")
  /\ APNS_ENV \in Envs
  /\ key_readable \in BOOLEAN

\* Bumps one at a time, against any gateway response, as time passes.
NextApns ==
  \/ Startup
  \/ Quiet /\ BumpStart("b1", MaxApnsCalls)
  \/ BumpInsert("b1")
  \/ BumpLookup("b1")
  \/ BumpFallback("b1")
  \/ BumpSend("b1", AnyResponses)
  \/ BumpPrune("b1")
  \/ Tick

SpecApns == InitApns /\ [][NextApns]_vars

\* ------------------------------------------------------------------ registrations only
MaxBootCalls == 2

\* Register calls interleaved, the first of them running the bootstrap.
NextBoot ==
  \/ Startup
  \/ \E p \in RegProcs :
       \/ RegStart(p, MaxBootCalls)
       \/ BootAwaited(p)
       \/ BootNormalize(p)
       \/ BootDropLegacy(p)
       \/ BootEnsureIndex(p)
       \/ RegUpsert(p)
       \/ RegInsert(p)

SpecBoot == Init /\ [][NextBoot]_vars

\* ------------------------------------------------------------------ dispatches that return
MaxLiveCalls == 2

\* Dispatches interleaved, against any response of the gateway.
NextLive ==
  \/ Startup
  \/ \E p \in BumpProcs :
       \/ BumpStart(p, MaxLiveCalls)
       \/ BumpInsert(p)
       \/ BumpLookup(p)
       \/ BumpFallback(p)
       \/ BumpSend(p, Responses)
       \/ BumpPrune(p)

\* A step of the handler past one of its awaits.
DispatchStep(p) ==
  \/ BumpInsert(p)
  \/ BumpLookup(p)
  \/ BumpFallback(p)
  \/ BumpSend(p, Responses)
  \/ BumpPrune(p)

\* Every await of the bump handler completes: the storage calls return, the
\* request to the gateway is answered or ends at the client's timeout of 10
\* seconds, and the event loop resumes a handler whose await has completed.
FairLive == \A p \in BumpProcs : WF_vars(DispatchStep(p))

\* A process with the default APNS_ENV, with or without a readable signing
\* key, and a user record whose legacy apns_token is not a device token.
InitLive ==
  /\ InitWith("short")
  /\ APNS_ENV = "sandbox"
  /\ key_readable \in BOOLEAN

SpecLive == InitLive /\ [][NextLive]_vars /\ FairLive

\* ------------------------------------------------------------------ the socket bump
\* The "bump" event handler of socket_manager.py, the other path that stores
\* a bump. It is served where sio is mounted next to the routes (main.py
\* exports the application without it). Its handler takes a slot of bump.
MaxSockCalls == 2

\* Sockets the target user can have connected.
MaxSids == 1

\* What the handler acknowledges to the sender.
SocketAck(b, res) ==
  [kind |-> "socket_bump", to |-> b.to, res |-> res,
   delivered |-> b.sent, bump_id |-> b.bump_id]

\* The event arrives from an authenticated sender: the target id is checked
\* and the target user looked up, "target_not_found" otherwise.
SocketBumpStart(p, budget) ==
  /\ started
  /\ bump[p].pc = "idle"
  /\ calls < budget
  /\ calls' = calls + 1
  /\ \E to \in Users \cup {GhostUser, BadId} :
       LET b == [IdleBump EXCEPT !.to = to]
       IN  IF ~ObjectIdValid(to) \/ to \notin Users
           THEN /\ bump' = [bump EXCEPT ![p] = IdleBump]
                /\ ev' = SocketAck(b, "target_not_found")
           ELSE /\ bump' = [bump EXCEPT ![p] = [b EXCEPT !.pc = "sock_insert"]]
                /\ ev' = NoEv
  /\ UNCHANGED <<settings, JWT_CACHE, started, store, indexes, apns_token, bumps,
                 bootstrap_done, bootstrap_lock, reg>>

\* bumps_collection.insert_one(bump_doc), with delivery.sockets_delivered 0.
SocketBumpInsert(p) ==
  /\ bump[p].pc = "sock_insert"
  /\ LET id == Cardinality(bumps) + 1
     IN  /\ bumps' = bumps \cup {[id |-> id, to_user_id |-> bump[p].to,
                                  delivery |-> 0]}
         /\ bump' = [bump EXCEPT ![p].pc = "sock_emit", ![p].bump_id = id]
  /\ ev' = NoEv
  /\ UNCHANGED <<settings, JWT_CACHE, started, store, indexes, apns_token,
                 bootstrap_done, bootstrap_lock, reg, calls>>

\* emit_to_user: one emit per connected socket of the target; delivered is
\* their number.
SocketBumpEmit(p) ==
  /\ bump[p].pc = "sock_emit"
  /\ \E delivered \in 0..MaxSids :
       bump' = [bump EXCEPT ![p].pc = "sock_update", ![p].sent = delivered]
  /\ ev' = NoEv
  /\ UNCHANGED <<settings, JWT_CACHE, started, store, indexes, apns_token, bumps,
                 bootstrap_done, bootstrap_lock, reg, calls>>

\* update_one({"_id": inserted_id}, {"$set": {"delivery.sockets_delivered":
\* delivered}}), then the bump_ack.
SocketBumpUpdate(p) ==
  /\ bump[p].pc = "sock_update"
  /\ bumps' = { IF d.id = bump[p].bump_id
                THEN [d EXCEPT !.delivery = bump[p].sent] ELSE d : d \in bumps }
  /\ bump' = [bump EXCEPT ![p] = IdleBump]
  /\ ev' = SocketAck(bump[p], "ok")
  /\ UNCHANGED <<settings, JWT_CACHE, started, store, indexes, apns_token,
                 bootstrap_done, bootstrap_lock, reg, calls>>

\* Bumps over the route on b1 and over the socket on b2.
NextSocket ==
  \/ Startup
  \/ BumpStart("b1", MaxSockCalls)
  \/ BumpInsert("b1")
  \/ BumpLookup("b1")
  \/ BumpFallback("b1")
  \/ BumpSend("b1", KindResponses)
  \/ BumpPrune("b1")
  \/ SocketBumpStart("b2", MaxSockCalls)
  \/ SocketBumpInsert("b2")
  \/ SocketBumpEmit("b2")
  \/ SocketBumpUpdate("b2")

SpecSocket == Init /\ [][NextSocket]_vars

\* ------------------------------------------------------------------ vocabulary of the properties
\* The registrations a Lookup of user u returns, by _id.
Lookup(u) == { d.id : d \in FindDevices(u) }

\* The devices of a returned dispatch that are registrations (documents of
\* the devices collection), as positions of its device list.
Regs(e) == { k \in 1..Len(e.devices) : e.devices[k].id # 0 }

\* The delivery outcome of one entry of the results of a dispatch, as the
\* client and the handler classify it: delivered is status 200, a hard
\* failure is 400 or 410 with a reason of PermanentReasons.
Delivered(r) == r.requested /\ r.status = 200
HardFailure(r) ==
  r.requested /\ r.status \in {400, 410} /\ r.reason \in PermanentReasons
SoftFailure(r) == r.requested /\ ~Delivered(r) /\ ~HardFailure(r)

\* A dispatch handed back a tally in the last step.
Dispatched == ev.kind = "bump" /\ ev.res = "ok"

\* ------------------------------------------------------------------ C1
\* C1: in every reachable state the devices collection holds at most one
\* registration per (user_id, platform, environment), under any interleaving
\* of Register calls and also when the bootstrap could not create its index.
C1_OnePerKey ==
  \A d1 \in store, d2 \in store :
    (d1.uid = d2.uid /\ d1.ustr = d2.ustr /\ d1.platform = d2.platform
       /\ d1.env = d2.env) => d1.id = d2.id

C3_OnlyHardFailureRemoves ==
  [][ \A d \in store :
        (d.id \notin { x.id : x \in store' }) =>
          /\ ev'.kind = "bump"
          /\ \E k \in 1..Len(ev'.results) :
               /\ ev'.results[k].id = d.id
               /\ HardFailure(ev'.results[k]) ]_vars

\* A dispatch pruned a registration and kept one whose push failed softly.
C3_Witness ==
  /\ Dispatched
  /\ ev.deleted # {}
  /\ \E k \in Regs(ev) :
       /\ SoftFailure(ev.results[k])
       /\ ev.devices[k].id \in Lookup(ev.to)

C5_LastTokenWins ==
  (ev.kind = "register" /\ ev.res # "400") =>
    /\ \E d \in store :
         /\ d.uid = ev.user /\ ~d.ustr /\ d.platform = "ios"
         /\ d.env = ev.env /\ d.token = ev.token
    /\ \A d \in store :
         (d.uid = ev.user /\ ~d.ustr /\ d.platform = "ios" /\ d.env = ev.env)
           => d.token = ev.token

\* ------------------------------------------------------------------ C6
\* C6: right after a successful Register, the Lookup of the user returns
\* exactly one registration for the submitted (user, platform, environment),
\* and it holds the submitted token.
C6_RegisterThenLookup ==
  (ev.kind = "register" /\ ev.res = "ok") =>
    LET hits == { d \in FindDevices(ev.user) : d.env = ev.env }
    IN  /\ Cardinality(hits) = 1
        /\ \A d \in hits : d.token = ev.token

\* ------------------------------------------------------------------ C7
\* The tally of a dispatch: attempted is the number of result entries,
\* delivered the handler's sent, hard_failed its failed (the one failure
\* count it returns), pruned its pruned.
Attempted(e) == Len(e.results)

\* C7 as stated: attempted is the number of registrations looked up,
\* delivered the number of Delivered outcomes, hard_failed the number of
\* HardFailure outcomes, and pruned equals hard_failed.
C7_Original ==
  Dispatched =>
    /\ Attempted(ev) = Cardinality(Regs(ev))
    /\ ev.sent =
         Cardinality({ k \in 1..Len(ev.results) : Delivered(ev.results[k]) })
    /\ ev.failed =
         Cardinality({ k \in 1..Len(ev.results) : HardFailure(ev.results[k]) })
    /\ ev.pruned = ev.failed

\* C7 amended: attempted is the number of devices pushed to (the
\* registrations looked up, or the one legacy token of the user record when
\* there is none), delivered the number of Delivered outcomes, the failure
\* count the number of all other outcomes (hard, soft, or no token), and
\* pruned the number of looked-up registrations with a HardFailure outcome,
\* which are exactly the ones gone afterwards; for {A, production} delivered
\* and {B, sandbox} dead that is 2 attempted, 1 delivered, 1 failed,
\* 1 pruned, and only A remains.
C7_Tally ==
  Dispatched =>
    LET all == 1..Len(ev.results)
        dead == { k \in Regs(ev) : HardFailure(ev.results[k]) }
    IN  /\ Attempted(ev) = Len(ev.devices)
        /\ Attempted(ev) = ev.sent + ev.failed
        /\ Len(ev.devices) =
             IF Regs(ev) # {} THEN Cardinality(Regs(ev))
             ELSE IF apns_token[ev.to] # None THEN 1 ELSE 0
        /\ ev.sent = Cardinality({ k \in all : Delivered(ev.results[k]) })
        /\ ev.failed = Cardinality({ k \in all : ~Delivered(ev.results[k]) })
        /\ ev.pruned = Cardinality(dead)
        /\ Lookup(ev.to) = { ev.devices[k].id : k \in Regs(ev) \ dead }

\* The scenario: A on production delivered, B on sandbox dead; the tally is
\* 2, 1, 1, 1 and the Lookup returns the registration of A alone.
C7_Witness ==
  /\ Dispatched
  /\ Len(ev.devices) = 2
  /\ \E a \in 1..2, b \in 1..2 :
       /\ ev.devices[a].token = "A" /\ ev.devices[a].environment = "production"
       /\ ev.devices[b].token = "B" /\ ev.devices[b].environment = "sandbox"
       /\ Delivered(ev.results[a])
       /\ HardFailure(ev.results[b])
       /\ Lookup(ev.to) = { ev.devices[a].id }
  /\ Attempted(ev) = 2 /\ ev.sent = 1 /\ ev.failed = 1 /\ ev.pruned = 1

\* ------------------------------------------------------------------ C8
\* The bump document a handler inserted.
PersistedIn(B, id, to) == [id |-> id, to_user_id |-> to, via |-> "rest"] \in B
Persisted(id, to) == PersistedIn(bumps, id, to)

\* C8: the event of a dispatch is in the bumps collection before its first
\* push is sent, it is there when the dispatch returns its tally (all pushes
\* failed or no device at all included), and no step removes or changes a
\* stored event.
C8_PersistedBeforeDelivery ==
  [][ /\ bumps \subseteq bumps'
      /\ \A p \in BumpProcs :
           (bump[p].pc = "send") => Persisted(bump[p].bump_id, bump[p].to)
      /\ (ev'.kind = "bump" /\ ev'.res = "ok")
           => PersistedIn(bumps', ev'.bump_id, ev'.to) ]_vars

\* A dispatch whose every push failed returned, and its event is stored.
C8_Witness ==
  /\ Dispatched
  /\ ev.requests >= 1
  /\ ev.sent = 0
  /\ Persisted(ev.bump_id, ev.to)

C10_RejectedWithoutWrite ==
  (ev.kind = "register" /\ ev.res = "400") => ~ev.wrote

C12_Original ==
  Dispatched =>
    \A k \in 1..Len(ev.results) :
      (ev.results[k].posts = 1 /\ ev.results[k].status \in 200..299)
        => ev.results[k].ok

\* C12 amended: a push is classified as delivered exactly when the gateway
\* answered it with status 200; any other status, the other 2xx codes
\* included, is a failure; the tally's sent is the number of 200 answers.
C12_DeliveredIs200 ==
  Dispatched =>
    /\ \A k \in 1..Len(ev.results) :
         ev.results[k].ok <=>
           (ev.results[k].posts = 1 /\ ev.results[k].status = 200)
    /\ ev.sent = Cardinality({ k \in 1..Len(ev.results) :
                                 ev.results[k].posts = 1
                                 /\ ev.results[k].status = 200 })

\* A dispatch got a 200 for one device and a 204 for the other.
C12_Witness ==
  /\ Dispatched
  /\ \E j \in 1..Len(ev.results), k \in 1..Len(ev.results) :
       /\ ev.results[j].status = 200 /\ ev.results[j].ok
       /\ ev.results[k].status = 204 /\ ~ev.results[k].ok
  /\ ev.sent = 1 /\ ev.failed = 1

\* ------------------------------------------------------------------ C13
\* C13 as stated: a registration is treated as dead (pruned) exactly when
\* its push got a 4xx status, whichever, with a reason saying the token is
\* invalid or unregistered.
C13_Original ==
  Dispatched =>
    \A k \in Regs(ev) :
      (ev.devices[k].id \in ev.deleted)
        <=> /\ ev.results[k].posts = 1
            /\ ev.results[k].status \in 400..499
            /\ ev.results[k].reason \in {"BadDeviceToken", "Unregistered"}

\* C13 amended: a push that is not delivered is treated as a hard failure
\* exactly when its status is 400 or 410 and its reason is BadDeviceToken or
\* Unregistered; every other outcome that is not a 200 (other 4xx, 5xx,
\* timeout, transport exception, unreadable key) is counted failed, keeps
\* its registration, and is returned as a value in the results.
C13_HardIs400Or410 ==
  Dispatched =>
    LET hard(r) == /\ r.posts = 1
                   /\ r.status \in {400, 410}
                   /\ r.reason \in {"BadDeviceToken", "Unregistered"}
    IN  /\ \A k \in Regs(ev) :
             (ev.devices[k].id \in ev.deleted) <=> hard(ev.results[k])
        /\ \A k \in Regs(ev) :
             (~ev.results[k].ok /\ ~hard(ev.results[k]))
               => ev.devices[k].id \in Lookup(ev.to)
        /\ ev.failed = Cardinality({ k \in 1..Len(ev.results) :
                                       ~ev.results[k].ok })

\* A dispatch pruned a registration answered 410 Unregistered and kept one
\* whose request raised in the transport.
C13_Witness ==
  /\ Dispatched
  /\ \E j \in Regs(ev), k \in Regs(ev) :
       /\ ev.results[j].status = 410
       /\ ev.results[j].reason = "Unregistered"
       /\ ev.devices[j].id \in ev.deleted
       /\ ev.results[k].error = "transport"
       /\ ev.devices[k].id \in Lookup(ev.to)

\* ------------------------------------------------------------------ C14
\* C14 as stated: every device of a dispatch gets one call of the client,
\* and every call sends exactly one request.
C14_Original ==
  Dispatched =>
    \A k \in 1..Len(ev.devices) :
      ev.results[k].requested /\ ev.results[k].posts = 1

\* C14 amended: a call of the client sends at most one request: exactly one
\* when the token is well-formed and the signed assertion could be had, none
\* when the token is not a hex token or the key cannot be read; a dispatch
\* calls the client exactly once per device that has a token and not at all
\* for a device without one; nothing is retried.
C14_AtMostOneRequest ==
  Dispatched =>
    /\ Len(ev.results) = Len(ev.devices)
    /\ ev.requests = Cardinality({ k \in 1..Len(ev.devices) :
                                     ev.devices[k].token # None })
    /\ \A k \in 1..Len(ev.devices) :
         LET r == ev.results[k]
             t == ev.devices[k].token
         IN  /\ r.requested <=> t # None
             /\ r.posts \in {0, 1}
             /\ (r.error = "Invalid token format")
                  <=> (t # None /\ SanitizeToken(t) = None)
             /\ (r.error = "key") => ~key_readable
             /\ (r.posts = 0)
                  <=> (~r.requested
                       \/ r.error \in {"Invalid token format", "key"})
             /\ key_readable =>
                  ((r.posts = 1) <=> (t # None /\ SanitizeToken(t) # None))

\* A dispatch to two devices sent one request each, the first one failing.
C14_Witness ==
  /\ Dispatched
  /\ Len(ev.devices) = 2
  /\ ev.results[1].posts = 1 /\ ~ev.results[1].ok
  /\ ev.results[2].posts = 1
  /\ ev.requests = 2

\* ------------------------------------------------------------------ C15
\* The result of the push of handler p in the step taken, when it is one.
Pushed(p) == bump[p].pc = "send" /\ bump'[p] # bump[p]
LastResult(p) ==
  LET rs == IF bump'[p].pc = "idle" THEN ev'.results ELSE bump'[p].results
  IN  rs[Len(rs)]

\* C15: every request sent to the gateway carries an assertion younger than
\* 50 minutes (the cached one, or one minted at that moment), and a new
\* assertion is minted only when there is none cached or the cached one is
\* 50 minutes old or more, with the time of minting as its age origin.
C15_AssertionYoungerThanTtl ==
  [][ /\ \A p \in BumpProcs :
           (Pushed(p) /\ LastResult(p).posts = 1) =>
             /\ JWT_CACHE'.token # None
             /\ clock - JWT_CACHE'.generated_at >= 0
             /\ clock - JWT_CACHE'.generated_at < JwtTtl
      /\ (JWT_CACHE' # JWT_CACHE) =>
           /\ \/ JWT_CACHE.token = None
              \/ clock - JWT_CACHE.generated_at >= JwtTtl
           /\ JWT_CACHE' = [token |-> "jwt", generated_at |-> clock]
      /\ (JWT_CACHE' = JWT_CACHE /\ \E p \in BumpProcs :
             Pushed(p) /\ LastResult(p).posts = 1) =>
           clock - JWT_CACHE.generated_at < JwtTtl ]_vars

\* A dispatch has sent its last request with the assertion cached 40 minutes
\* before, one minted 50 minutes or more after the process started.
C15_Witness ==
  /\ Dispatched
  /\ ev.results # <<>>
  /\ ev.results[Len(ev.results)].posts = 1
  /\ JWT_CACHE.token # None
  /\ JWT_CACHE.generated_at >= JwtTtl
  /\ clock - JWT_CACHE.generated_at = 40

\* ------------------------------------------------------------------ C16
\* C16: a process that serves requests has a readable signing key: no
\* dispatch of a started process has a push that failed because the key
\* could not be loaded.
C16_NoKeyErrorWhileServing ==
  (started /\ Dispatched) =>
    \A k \in 1..Len(ev.results) : ev.results[k].error # "key"

\* ------------------------------------------------------------------ C17
\* The gateway endpoint of an environment.
HostOf(env) ==
  IF env = "production" THEN "api.push.apple.com"
  ELSE "api.sandbox.push.apple.com"

\* C17: every request of a dispatch goes to the endpoint of the environment
\* of the registration it is for, whatever APNS_ENV is.
C17_EndpointOfRegistration ==
  Dispatched =>
    \A k \in 1..Len(ev.results) :
      (ev.results[k].posts = 1)
        => ev.results[k].host = HostOf(ev.results[k].env)

\* ------------------------------------------------------------------ C18
\* The positions of a Register handler inside the body of the bootstrap.
BootPcs == {"boot_norm", "boot_drop", "boot_index"}

InBody == { p \in RegProcs : reg[p].pc \in BootPcs }

\* C18: under any interleaving of concurrent first Register calls the body
\* of the bootstrap (normalise, drop index, create index) runs at most once
\* in the process: at most one handler is inside it, its holder has the lock,
\* a handler enters it only while the latch is unset and nobody is inside,
\* and the latch once set stays set; a caller that waits leaves the wait only
\* when that execution has finished; and no handler is at its upsert before
\* the bootstrap has completed.
C18_BootstrapOnce ==
  /\ [](/\ Cardinality(InBody) <= 1
        /\ \A p \in InBody : bootstrap_lock = p /\ ~bootstrap_done
        /\ \A p \in RegProcs :
             reg[p].pc \in {"upsert", "insert"} => bootstrap_done)
  /\ [][/\ bootstrap_done => bootstrap_done'
        /\ \A p \in RegProcs :
             /\ (reg[p].pc \notin BootPcs /\ reg'[p].pc \in BootPcs)
                  => (reg'[p].pc = "boot_norm" /\ InBody = {} /\ ~bootstrap_done)
             /\ (reg[p].pc = "wait_lock" /\ reg'[p].pc # "wait_lock")
                  => (bootstrap_done /\ InBody = {})]_vars

\* Two first calls are in flight: one waits for the lock while the other is
\* inside the body of the bootstrap, past its first step.
C18_Witness ==
  \E p \in RegProcs, q \in RegProcs :
    /\ reg[p].pc = "wait_lock"
    /\ reg[q].pc \in {"boot_drop", "boot_index"}
    /\ ~bootstrap_done
\* ------------------------------------------------------------------ C19
\* C19: once the bootstrap has completed, the devices collection carries
\* exactly one unique index, uniq_user_platform_env on (user_id, platform,
\* environment), whatever indexes and documents the deployment started with.
C19_SingleUniqueIndex ==
  bootstrap_done => indexes = {"upe"}

\* ------------------------------------------------------------------ C20
\* C20: once the bootstrap has completed, and after any registrations that
\* follow, every document of the devices collection has an environment of
\* the closed set {sandbox, production}.
C20_EnvironmentsNormalized ==
  bootstrap_done => \A d \in store : d.env \in Envs

\* ------------------------------------------------------------------ C21
\* C21: a Register call whose upsert hits a duplicate key retries once, on
\* one fallback filter, and then ends with a handled error: every call that
\* ends has issued at most two upserts and has not ended with an exception
\* that left the handler.
C21_AtMostOneRetry ==
  (ev.kind = "register" /\ ev.res # "400") =>
    /\ ev.stage <= 2
    /\ ev.res # "unhandled"

\* ------------------------------------------------------------------ C22
\* The _ids of the documents of the devices collection.
Ids(S) == { d.id : d \in S }

\* C22: a registration is deleted only by the prune of a dispatch, and only
\* one that dispatch recorded as dead after its push came back as a
\* HardFailure: no step of a Register call, of the bootstrap or of the
\* startup removes a document, and the prune of handler p removes none whose
\* outcome in p's results was Delivered or SoftFailure.
C22_DeletedOnlyByDispatcher ==
  [][ (Ids(store) \ Ids(store') # {}) =>
        \E p \in BumpProcs :
          /\ bump[p].pc = "prune" /\ bump'[p].pc = "idle"
          /\ reg' = reg
          /\ \A q \in BumpProcs \ {p} : bump'[q] = bump[q]
          /\ Ids(store) \ Ids(store') \subseteq bump[p].to_prune_ids
          /\ \A id \in Ids(store) \ Ids(store') :
               \A k \in 1..Len(bump[p].results) :
                 (bump[p].results[k].id = id) =>
                   /\ HardFailure(bump[p].results[k])
                   /\ ~Delivered(bump[p].results[k])
                   /\ ~SoftFailure(bump[p].results[k])
          /\ \A id \in Ids(store) \ Ids(store') :
               \E k \in 1..Len(bump[p].results) : bump[p].results[k].id = id ]_vars

\* In a process whose bootstrap a Register call has run, a dispatch to a user
\* with two registrations delivered to one and got a hard failure for the
\* other, and its prune removed the dead registration only.
C22_Witness ==
  /\ Dispatched
  /\ Cardinality(ev.deleted) = 1
  /\ \E k \in Regs(ev) :
       /\ Delivered(ev.results[k])
       /\ ev.devices[k].id \in Lookup(ev.to)
  /\ \E k \in Regs(ev) :
       /\ HardFailure(ev.results[k])
       /\ ev.devices[k].id \in ev.deleted
  /\ bootstrap_done

\* ------------------------------------------------------------------ C23
\* The positions of a result list whose push was counted as sent.
Oks(rs) == { k \in 1..Len(rs) : rs[k].ok }

\* C23: a dispatch returns its tally only when every device of its lookup
\* has an outcome: while the loop runs the handler has not returned and has
\* one result per device passed, and the tally it returns has one result per
\* device, in the order of the lookup, with sent the number of delivered
\* results and failed the number of all others, whichever of them came
\* first.
C23_TallyAfterEveryOutcome ==
  /\ \A p \in BumpProcs :
       /\ bump[p].pc = "send" =>
            /\ bump[p].i <= Len(bump[p].devices)
            /\ Len(bump[p].results) = bump[p].i - 1
       /\ bump[p].pc = "prune" =>
            Len(bump[p].results) = Len(bump[p].devices)
  /\ (Dispatched /\ ev.devices # <<>>) =>
       /\ Len(ev.results) = Len(ev.devices)
       /\ \A k \in 1..Len(ev.devices) : ev.results[k].id = ev.devices[k].id
       /\ ev.sent = Cardinality(Oks(ev.results))
       /\ ev.failed = Len(ev.results) - Cardinality(Oks(ev.results))

\* A dispatch to two registrations returned after the first push failed and
\* the second was delivered.
C23_Witness ==
  /\ Dispatched
  /\ Len(ev.devices) = 2
  /\ Regs(ev) = {1, 2}
  /\ ~ev.results[1].ok
  /\ ev.results[2].ok
  /\ ev.sent = 1 /\ ev.failed = 1

\* ------------------------------------------------------------------ C24
\* C24: a stored bump is write-once: every document of the bumps collection
\* is there, with every field as it was inserted, after every step of either
\* bump path; none is updated with the number of deliveries.
C24_WriteOnce ==
  [][ \A b \in bumps : b \in bumps' ]_vars

\* ------------------------------------------------------------------ C25
\* C25: every push returns an outcome and every dispatch returns: a handler
\* is always later idle again, having returned its tally or its error, and a
\* handler at the push of its first or second device is always later past
\* it; a request that gets no answer comes back at the timeout as a failure
\* of status 0.
C25_EveryDispatchReturns ==
  \A p \in BumpProcs :
    /\ []<>(bump[p].pc = "idle")
    /\ \A k \in 1..2 : []<>(~(bump[p].pc = "send" /\ bump[p].i = k))

\* A dispatch to two registrations returned its tally after the request for
\* the first got no answer (a SoftFailure of status 0) and the second was
\* delivered.
C25_Witness ==
  /\ Dispatched
  /\ Len(ev.results) = 2
  /\ ev.results[1].error = "transport"
  /\ ev.results[1].posts = 1
  /\ SoftFailure(ev.results[1])
  /\ Delivered(ev.results[2])

\* ------------------------------------------------------------------ C26
\* C26: a push token is bound to at most one user: once Register(B, T) has
\* succeeded, no registration of another user holds T, so that the documents
\* of the devices collection that hold the same token are of one user.
C26_TokenOfOneUser ==
  \A d1 \in store, d2 \in store :
    (d1.token # None /\ d1.token = d2.token) => d1.uid = d2.uid

\* ------------------------------------------------------------------ C27
\* A bootstrap that handles an existing uniq_user_platform_env by dropping
\* it, and creates it only when it is not there.
BootstrapRun_Recreate(S, IX, n, okDrop, okCreate) ==
  LET s1 == IF n >= 1 THEN NormalizeEnv(S, "Production", "production") ELSE S
      s2 == IF n >= 2 THEN NormalizeEnv(s1, "Sandbox", "sandbox") ELSE s1
      sN == IF ~DuplicateKey(s2, IX) THEN s2
            ELSE IF ~DuplicateKey(s1, IX) THEN s1 ELSE S
      ix1 == IF okDrop THEN IX \ {"up"} ELSE IX
      ix2 == IF "upe" \in ix1 THEN ix1 \ {"upe"}
             ELSE IF okCreate /\ ~Collides(sN, "upe")
             THEN ix1 \cup {"upe"} ELSE ix1
  IN  [store |-> sN, indexes |-> ix2]

\* One whole run of _bootstrap_devices_collection_once on the documents S
\* and the unique indexes IX, as the collection it leaves: n of the two
\* update_many calls go through (one that meets a duplicate key raises and
\* the step is skipped from there), okDrop and okCreate say whether
\* drop_index and create_index go through; create_index fails in any case
\* over documents that collide.
BootstrapRun(S, IX, n, okDrop, okCreate) ==
  LET s1 == IF n >= 1 THEN NormalizeEnv(S, "Production", "production") ELSE S
      s2 == IF n >= 2 THEN NormalizeEnv(s1, "Sandbox", "sandbox") ELSE s1
      sN == IF ~DuplicateKey(s2, IX) THEN s2
            ELSE IF ~DuplicateKey(s1, IX) THEN s1 ELSE S
      ix1 == IF okDrop THEN IX \ {"up"} ELSE IX
      ix2 == IF okCreate /\ ~Collides(sN, "upe")
             THEN ix1 \cup {"upe"} ELSE ix1
  IN  [store |-> sN, indexes |-> ix2]

\* C27: the bootstrap is idempotent: on the collection of any reachable
\* state, a run on what a run has left changes no document and no index, so
\* two runs (of two successive processes, say) leave what one run leaves;
\* this for every way the storage calls of a run can fail, the same in both.
\* And the steps a handler takes through the bootstrap are the steps of
\* such a run.
C27_BootstrapIdempotent ==
  /\ [](\A n \in 0..2, okDrop \in BOOLEAN, okCreate \in BOOLEAN :
          LET once == BootstrapRun(store, indexes, n, okDrop, okCreate)
          IN  BootstrapRun(once.store, once.indexes, n, okDrop, okCreate)
                = once)
  /\ [][\A p \in RegProcs :
          /\ (reg[p].pc = "boot_norm" /\ reg'[p].pc # "boot_norm") =>
               \E n \in 0..2 :
                 <<store', indexes'>> =
                   <<BootstrapRun(store, indexes, n, FALSE, FALSE).store,
                     indexes>>
          /\ (reg[p].pc = "boot_drop" /\ reg'[p].pc # "boot_drop") =>
               \E ok \in BOOLEAN :
                 <<store', indexes'>> =
                   <<store, BootstrapRun(store, indexes, 0, ok, FALSE).indexes>>
          /\ (reg[p].pc = "boot_index" /\ reg'[p].pc # "boot_index") =>
               \E ok \in BOOLEAN :
                 <<store', indexes'>> =
                   <<store, BootstrapRun(store, indexes, 0, FALSE, ok).indexes>>
       ]_vars

\* The first Register call of a process has run the bootstrap, which
\* rewrote a legacy environment, dropped the legacy index and created
\* uniq_user_platform_env; a further run would leave the collection as it is.
C27_Witness ==
  /\ bootstrap_done
  /\ ev.kind = "register" /\ ev.wrote
  /\ \E d \in store : d.id = 1 /\ d.env = "sandbox" /\ d.token = "A"
  /\ indexes = {"upe", "upt"}
  /\ BootstrapRun(store, indexes, 2, TRUE, TRUE)
       = [store |-> store, indexes |-> indexes]

\* ------------------------------------------------------------------ C28
\* C28: when the prune of a dispatch removes a registration, the token the
\* registration holds at that moment is the one the dispatch looked up and
\* the gateway reported dead: a registration whose token a Register call has
\* rotated since the lookup is not removed.
C28_PrunedHoldsDeadToken ==
  [][ \A p \in BumpProcs :
        (bump[p].pc = "prune" /\ bump'[p].pc = "idle") =>
          \A d \in store :
            (d.id \notin Ids(store')) =>
              \E k \in 1..Len(bump[p].devices) :
                /\ bump[p].devices[k].id = d.id
                /\ bump[p].devices[k].token = d.token ]_vars

\* ------------------------------------------------------------------ C29
\* The registration key (user, platform, environment) of a document, with
\* the environment in lower case.
KeyOf(d) == <<d.uid, d.ustr, d.platform, Lower(d.env)>>

\* C29: the write of a Register call for (u, ios, e) changes at most the
\* registration of that key: every document of another user, and the
\* document of u for the other environment, is after each upsert and insert
\* of the call as it was before, whichever fallback filter the write used.
C29_OtherKeysUntouched ==
  [][ \A p \in RegProcs :
        (reg[p].pc \in {"upsert", "insert"} /\ reg'[p] # reg[p]) =>
          \A d \in store :
            (KeyOf(d) # <<reg[p].user, FALSE, "ios", reg[p].env>>)
              => d \in store' ]_vars

\* ------------------------------------------------------------------ C30
\* C30: a removal is counted by one dispatch only: the pruned of a tally is
\* the number of documents the delete of that dispatch removed, the
\* documents removed are gone for every other dispatch, and a delete that
\* finds nothing left returns its tally with pruned 0 and no error; so two
\* concurrent dispatches with a hard failure for the same registration
\* return pruned counts that sum to 1.
C30_RemovalCountedOnce ==
  [][ \A p \in BumpProcs :
        (bump[p].pc = "prune" /\ bump'[p].pc = "idle") =>
          /\ ev'.kind = "bump" /\ ev'.res = "ok"
          /\ ev'.pruned = Cardinality(Ids(store) \ Ids(store'))
          /\ ev'.deleted = Ids(store) \ Ids(store')
          /\ Ids(store') \cap bump[p].to_prune_ids = {}
          /\ \A q \in BumpProcs \ {p} :
               bump[q].pc = "prune" =>
                 /\ bump'[q] = bump[q]
                 /\ { d \in store' : d.id \in bump[q].to_prune_ids }
                      = { d \in store : d.id \in bump[q].to_prune_ids
                                         /\ d.id \notin bump[p].to_prune_ids }
    ]_vars

\* Two dispatches to the same user got a hard failure for the same
\* registration; the first removed it, and the second has returned its
\* tally with pruned 0.
C30_Witness ==
  /\ Dispatched
  /\ ev.pruned = 0 /\ ev.deleted = {}
  /\ \E k \in Regs(ev) :
       /\ HardFailure(ev.results[k])
       /\ ev.devices[k].id \notin Ids(store)
  /\ Cardinality({ b \in bumps : b.to_user_id = ev.to }) = 2

====
